---- MODULE Spec2Model ----
(***************************************************************************)
(* convert.py: the slide archive converter.  One run of process() finds    *)
(* the slide PNGs of images/, converts each to WebP in images/archive,     *)
(* moves the original there as well, and rebuilds images/list.json from    *)
(* the archive directory.                                                  *)
(*                                                                         *)
(* A file name is a sequence of characters (one-character strings; "sup2"  *)
(* stands for the single character U+00B2, SUPERSCRIPT TWO).  A path is a  *)
(* record of its directory and its base name.  The file system is a        *)
(* function from the paths that exist to the files' contents.              *)
(***************************************************************************)
EXTENDS Integers, Sequences, FiniteSets

VARIABLES
    fs,          \* the files on disk: path -> contents
    list_json,   \* the contents of images/list.json
    dir_order,   \* the order in which os.listdir enumerates a directory
    pc,          \* where process() stands
    slide_pngs,  \* process(): the paths find_slide_pngs() returned
    queue,       \* process(): what is left of `for png_path in sorted(slide_pngs)`
    runs,        \* how many runs of process() have ended
    fs0          \* history: the files on disk before the first run

vars == <<fs, list_json, dir_order, pc, slide_pngs, queue, runs, fs0>>

----------------------------------------------------------------------------
(* Bounds of the model. *)

\* at most this many files are on disk before the first run
MaxFiles == 3
\* process() is run at most this many times
MaxRuns == 2
\* datetime.now() is one of the seconds 0 .. MaxClock after midnight
MaxClock == 1

----------------------------------------------------------------------------
(* Path constants, convert.py lines 16-19. *)

SOURCE_DIR == "images"
ARCHIVE_DIR == "images/archive"
WEBP_QUALITY == 80

----------------------------------------------------------------------------
(* Python's str and os.path operations on character sequences. *)

\* ord(c) of the characters the model uses
Ord(c) ==
    CASE c = "." -> 46
      [] c = "0" -> 48 [] c = "1" -> 49 [] c = "2" -> 50 [] c = "3" -> 51
      [] c = "4" -> 52 [] c = "5" -> 53 [] c = "6" -> 54 [] c = "7" -> 55
      [] c = "8" -> 56 [] c = "9" -> 57
      [] c = "A" -> 65 [] c = "B" -> 66 [] c = "C" -> 67 [] c = "Z" -> 90
      [] c = "_" -> 95
      [] c = "b" -> 98 [] c = "e" -> 101 [] c = "g" -> 103 [] c = "n" -> 110
      [] c = "p" -> 112 [] c = "w" -> 119 [] c = "x" -> 120
      [] c = "sup2" -> 178

\* the characters int() reads as decimal digits
DecimalChars == {"0", "1", "2", "3", "4", "5", "6", "7", "8", "9"}

\* the characters str.isdigit() accepts: the decimal digits and the digit-like
\* characters (superscripts) that int() rejects
DigitChars == DecimalChars \cup {"sup2"}

\* s < t as Python compares two str: by code point, a proper prefix first
RECURSIVE StrLess(_, _)
StrLess(s, t) ==
    IF t = <<>> THEN FALSE
    ELSE IF s = <<>> THEN TRUE
    ELSE IF Ord(Head(s)) # Ord(Head(t)) THEN Ord(Head(s)) < Ord(Head(t))
    ELSE StrLess(Tail(s), Tail(t))

\* s.split(sep) for a one-character separator
RECURSIVE split(_, _)
split(s, sep) ==
    IF \A i \in 1..Len(s) : s[i] # sep THEN <<s>>
    ELSE LET i == CHOOSE k \in 1..Len(s) :
                    s[k] = sep /\ \A j \in 1..(k - 1) : s[j] # sep
         IN <<SubSeq(s, 1, i - 1)>> \o split(SubSeq(s, i + 1, Len(s)), sep)

\* sep.join(parts)
RECURSIVE join(_, _)
join(parts, sep) ==
    IF parts = <<>> THEN <<>>
    ELSE IF Len(parts) = 1 THEN parts[1]
    ELSE parts[1] \o <<sep>> \o join(Tail(parts), sep)

\* s.endswith(suffix)
endswith(s, suffix) ==
    /\ Len(suffix) <= Len(s)
    /\ SubSeq(s, Len(s) - Len(suffix) + 1, Len(s)) = suffix

\* s.isdigit(): at least one character, and all of them digits
isdigit(s) == s # <<>> /\ \A i \in 1..Len(s) : s[i] \in DigitChars

\* int(s) raises ValueError
IntRaises(s) == s = <<>> \/ \E i \in 1..Len(s) : s[i] \notin DecimalChars

\* int(s) for a string of decimal digits
RECURSIVE int(_)
int(s) ==
    IF s = <<>> THEN 0
    ELSE 10 * int(SubSeq(s, 1, Len(s) - 1)) + (Ord(s[Len(s)]) - Ord("0"))

\* os.path.splitext(name): the extension starts at the last dot, unless only
\* dots come before it
splitext(name) ==
    LET dots == {i \in 1..Len(name) : name[i] = "."}
        dotIndex == IF dots = {} THEN 0
                    ELSE CHOOSE i \in dots : \A j \in dots : j <= i
    IN IF dotIndex > 0 /\ \E j \in 1..(dotIndex - 1) : name[j] # "."
       THEN <<SubSeq(name, 1, dotIndex - 1), SubSeq(name, dotIndex, Len(name))>>
       ELSE <<name, <<>>>>

\* os.path.join(dir, name) and os.path.basename(path)
Path(dir, name) == [dir |-> dir, name |-> name]
basename(path) == path.name

\* os.path.exists(path)
exists(disk, path) == path \in DOMAIN disk

\* '%02d' % n
TwoDigits(n) ==
    LET Digit(d) == CHOOSE c \in DecimalChars : Ord(c) = Ord("0") + d
    IN <<Digit((n \div 10) % 10), Digit(n % 10)>>

\* datetime.strftime('%H%M%S') of the time `now` seconds after midnight
strftime_HMS(now) ==
    TwoDigits(now \div 3600) \o TwoDigits((now \div 60) % 60) \o TwoDigits(now % 60)

\* the paths of a set, in ascending order of their names
RECURSIVE SortedPaths(_)
SortedPaths(S) ==
    IF S = {} THEN <<>>
    ELSE LET m == CHOOSE p \in S : \A q \in S : ~StrLess(q.name, p.name)
         IN <<m>> \o SortedPaths(S \ {m})

Reverse(s) == [i \in 1..Len(s) |-> s[Len(s) + 1 - i]]

----------------------------------------------------------------------------
(* File contents.  A PNG that is not `ok` cannot be decoded; a WebP that is *)
(* not `ok` was cut off while it was being written.                        *)

PngFile(px, ok) == [fmt |-> "PNG", px |-> px, ok |-> ok, quality |-> 0]

\* the file img.convert('RGB').save(webp_path, 'WEBP', quality=WEBP_QUALITY) writes
SavedWebp(png) == [fmt |-> "WEBP", px |-> png.px, ok |-> TRUE, quality |-> WEBP_QUALITY]

\* what is on disk when the process dies inside img.save
PartialWebp(png) == [SavedWebp(png) EXCEPT !.ok = FALSE]

DotPng == <<".", "p", "n", "g">>
DotWebp == <<".", "w", "e", "b", "p">>

----------------------------------------------------------------------------
(* find_slide_pngs, convert.py lines 27-41 *)

\* glob.glob(f'{SOURCE_DIR}/*.png'): the names of the directory that end in
\* .png; a pattern that starts with * matches no name that starts with a dot
glob_png(disk, dir) ==
    {p \in DOMAIN disk : p.dir = dir /\ endswith(p.name, DotPng) /\ Head(p.name) # "."}

\* len(parts) >= 3 for the name without its extension
is_slide(path) == Len(split(splitext(basename(path))[1], "_")) >= 3

find_slide_pngs(disk) == {path \in glob_png(disk, SOURCE_DIR) : is_slide(path)}

----------------------------------------------------------------------------
(* convert_to_webp, convert.py lines 44-64 *)

webp_name_of(png_path) == splitext(basename(png_path))[1] \o DotWebp
webp_path_of(png_path) == Path(ARCHIVE_DIR, webp_name_of(png_path))

\* mutant: the check of line 55 is missing, every file is converted again
convert_skips_Never(disk, png_path) == FALSE

\* line 55: the converted file is there already, the conversion is skipped
convert_skips(disk, png_path) == exists(disk, webp_path_of(png_path))

\* lines 59-60: Image.open(...).convert('RGB') raises on an image it cannot decode
convert_raises(disk, png_path) == ~disk[png_path].ok

\* line 61: the disk after img.save
convert_saves(disk, png_path) ==
    [p \in DOMAIN disk \cup {webp_path_of(png_path)} |->
        IF p = webp_path_of(png_path) THEN SavedWebp(disk[png_path]) ELSE disk[p]]

----------------------------------------------------------------------------
(* archive_original, convert.py lines 67-79 *)

\* lines 74-76: f'{name}_{ts}{ext}'
suffixed_dest(png_path, now) ==
    LET ne == splitext(basename(png_path))
    IN Path(ARCHIVE_DIR, ne[1] \o <<"_">> \o strftime_HMS(now) \o ne[2])

\* mutant: the check of line 73 is missing, the original always goes to its own name
archive_dest_Unchecked(disk, png_path, now) == Path(ARCHIVE_DIR, basename(png_path))

\* lines 69-76: where the original goes
archive_dest(disk, png_path, now) ==
    IF exists(disk, Path(ARCHIVE_DIR, basename(png_path)))
    THEN suffixed_dest(png_path, now)
    ELSE Path(ARCHIVE_DIR, basename(png_path))

\* mutant: the original is copied, not moved
move_KeepsSource(disk, src, dst) ==
    [p \in DOMAIN disk \cup {dst} |-> IF p = dst THEN disk[src] ELSE disk[p]]

\* shutil.move(src, dst) to a file path: a rename, which replaces a file at dst
move(disk, src, dst) ==
    [p \in (DOMAIN disk \ {src}) \cup {dst} |-> IF p = dst THEN disk[src] ELSE disk[p]]

----------------------------------------------------------------------------
(* parse_filename, convert.py lines 82-92 *)

\* mutant: the label is parts[1] alone
middle_FirstOnly(parts) == SubSeq(parts, 2, 2)

\* parts[1:-1]
middle(parts) == SubSeq(parts, 2, Len(parts) - 1)

\* raised: int(page) raised ValueError (isdigit() accepted what int() rejects)
parse_filename(webp_name) ==
    LET name == splitext(webp_name)[1]
        parts == split(name, "_")
        page == parts[Len(parts)]
    IN [raised |-> isdigit(page) /\ IntRaises(page),
        date |-> parts[1],
        label |-> join(middle(parts), "_"),
        page |-> IF isdigit(page) /\ ~IntRaises(page) THEN int(page) ELSE 0]

----------------------------------------------------------------------------
(* build_list_json, convert.py lines 95-137 *)

\* os.listdir(dir): the names of the directory, in the directory's order
listdir(disk, dir, order) ==
    LET asc == SortedPaths({p \in DOMAIN disk : p.dir = dir})
        names == [i \in 1..Len(asc) |-> asc[i].name]
    IN IF order = "asc" THEN names ELSE Reverse(names)

\* lines 106-109: the slide files among them
is_slide_webp(f) == endswith(f, DotWebp) /\ Len(split(f, "_")) >= 3

\* sorted(keys): a set of str in ascending order
RECURSIVE sorted_strs(_)
sorted_strs(S) ==
    IF S = {} THEN <<>>
    ELSE LET m == CHOOSE s \in S : \A t \in S : ~StrLess(t, s)
         IN <<m>> \o sorted_strs(S \ {m})

\* mutant: the pages are left in the order the directory gave them
sorted_by_page_Unsorted(names) == names

\* line 130: sorted(pages, key=lambda x: x[0]), a stable sort on the page number
RECURSIVE sorted_by_page(_)
sorted_by_page(names) ==
    IF names = <<>> THEN <<>>
    ELSE LET n == Len(names)
             rest == sorted_by_page(SubSeq(names, 1, n - 1))
             k == Cardinality({i \in 1..(n - 1) :
                     parse_filename(rest[i]).page <= parse_filename(names[n]).page})
         IN SubSeq(rest, 1, k) \o <<names[n]>> \o SubSeq(rest, k + 1, n - 1)

\* line 127: the dates, newest first
sorted_dates(S) == Reverse(sorted_strs(S))

\* line 129: the labels of a date, in alphabetical order
sorted_labels(S) == sorted_strs(S)

\* the dict written to list.json, as the sequence of its items in order
build_list_json(disk, order) ==
    LET all_webps == SelectSeq(listdir(disk, ARCHIVE_DIR, order), is_slide_webp)
        HasData(f) == ~parse_filename(f).raised
        data == SelectSeq(all_webps, HasData)
        D == 1..Len(data)
        dates == sorted_dates({parse_filename(data[i]).date : i \in D})
        labels(d) == sorted_labels({parse_filename(data[i]).label :
                        i \in {j \in D : parse_filename(data[j]).date = d}})
        InGroup(d, l, f) == parse_filename(f).date = d /\ parse_filename(f).label = l
        pages(d, l) == LET Mine(f) == InGroup(d, l, f)
                       IN sorted_by_page(SelectSeq(data, Mine))
    IN [i \in 1..Len(dates) |->
          [date |-> dates[i],
           labels |-> [j \in 1..Len(labels(dates[i])) |->
                         [label |-> labels(dates[i])[j],
                          files |-> pages(dates[i], labels(dates[i])[j])]]]]

----------------------------------------------------------------------------
(* The files a run may find.  File names follow the rule of convert.py     *)
(* lines 4-5, date_label_page, and its variations.                         *)

\* 1_A_2 and 1_A_02: two pages 2 of one series; 1_A_x: a page that is no number
Stem_1_A_2 == <<"1", "_", "A", "_", "2">>
Stem_1_A_02 == <<"1", "_", "A", "_", "0", "2">>
Stem_1_A_x == <<"1", "_", "A", "_", "x">>
\* a label that holds the delimiter
Stem_1_B_C_1 == <<"1", "_", "B", "_", "C", "_", "1">>
\* another date; a page isdigit() accepts and int() rejects
Stem_2_A_1 == <<"2", "_", "A", "_", "1">>
Stem_2_A_sup2 == <<"2", "_", "A", "_", "sup2">>
\* single images: two segments, one segment
Stem_1_A == <<"1", "_", "A">>
Stem_1 == <<"1">>

SlideStems ==
    {Stem_1_A_2, Stem_1_A_02, Stem_1_A_x, Stem_1_B_C_1, Stem_2_A_1, Stem_2_A_sup2}

Stems == SlideStems \cup {Stem_1_A, Stem_1}

Clock == 0..MaxClock

\* the PNGs a user may have put into images/
SourcePaths == {Path(SOURCE_DIR, s \o DotPng) : s \in Stems}

\* what earlier runs may have left in images/archive: converted files, the
\* original of 1_A_2 and originals of it that were archived under a time suffix
ArchivePaths ==
    {Path(ARCHIVE_DIR, s \o DotWebp) : s \in Stems}
        \cup {Path(ARCHIVE_DIR, Stem_1_A_2 \o DotPng)}
        \cup {suffixed_dest(Path(SOURCE_DIR, Stem_1_A_2 \o DotPng), t) : t \in Clock}

\* a new upload is image 1, decodable or not; what the archive holds came from image 2
InitialFile(path, decodable) ==
    IF path.dir = SOURCE_DIR THEN PngFile(1, decodable)
    ELSE IF endswith(path.name, DotPng) THEN PngFile(2, TRUE)
    ELSE SavedWebp(PngFile(2, TRUE))

\* the subsets of S of at most k elements
RECURSIVE SubsetsUpTo(_, _)
SubsetsUpTo(S, k) ==
    IF k = 0 \/ S = {} THEN {{}}
    ELSE LET x == CHOOSE y \in S : TRUE
         IN SubsetsUpTo(S \ {x}, k) \cup {T \cup {x} : T \in SubsetsUpTo(S \ {x}, k - 1)}

\* a list.json left by an earlier run, naming a file that is no longer on disk
StaleIndex ==
    << [date |-> <<"9">>,
        labels |-> << [label |-> <<"Z">>,
                       files |-> << <<"9", "_", "Z", "_", "9">> \o DotWebp >>] >>] >>

Init ==
    /\ \E P \in SubsetsUpTo(SourcePaths \cup ArchivePaths, MaxFiles) :
         \E bad \in SUBSET {p \in P : p.dir = SOURCE_DIR} :
            fs = [p \in P |-> InitialFile(p, p \notin bad)]
    /\ fs0 = fs
    /\ list_json = StaleIndex
    /\ dir_order \in {"asc", "desc"}
    /\ pc = "idle"
    /\ slide_pngs = {}
    /\ queue = <<>>
    /\ runs = 0

----------------------------------------------------------------------------
(* process, convert.py lines 140-161 *)

NotRunning == pc \in {"idle", "done", "aborted", "crashed"}

\* lines 149-152: slide PNGs were found; the loop goes through them in sorted order
FoundSlides ==
    /\ NotRunning /\ runs < MaxRuns
    /\ find_slide_pngs(fs) # {}
    /\ slide_pngs' = find_slide_pngs(fs)
    /\ queue' = SortedPaths(find_slide_pngs(fs))
    /\ pc' = "convert"
    /\ UNCHANGED <<fs, list_json, dir_order, runs, fs0>>

\* lines 155-156: none was found
FoundNone ==
    /\ NotRunning /\ runs < MaxRuns
    /\ find_slide_pngs(fs) = {}
    /\ slide_pngs' = {}
    /\ queue' = <<>>
    /\ pc' = "index"
    /\ UNCHANGED <<fs, list_json, dir_order, runs, fs0>>

\* line 153, convert_to_webp lines 55-57: the converted file exists
ConvertSkip ==
    /\ pc = "convert"
    /\ convert_skips(fs, Head(queue))
    /\ pc' = "archive"
    /\ UNCHANGED <<fs, list_json, dir_order, slide_pngs, queue, runs, fs0>>

\* line 153, convert_to_webp lines 59-64: the image is converted and saved
ConvertSave ==
    /\ pc = "convert"
    /\ ~convert_skips(fs, Head(queue))
    /\ ~convert_raises(fs, Head(queue))
    /\ fs' = convert_saves(fs, Head(queue))
    /\ pc' = "archive"
    /\ UNCHANGED <<list_json, dir_order, slide_pngs, queue, runs, fs0>>

\* mutant: the exception is swallowed and the loop goes on to archive_original
ConvertRaise_Swallowed ==
    /\ pc = "convert"
    /\ ~convert_skips(fs, Head(queue))
    /\ convert_raises(fs, Head(queue))
    /\ pc' = "archive"
    /\ UNCHANGED <<fs, list_json, dir_order, slide_pngs, queue, runs, fs0>>

\* line 153, convert_to_webp lines 59-60: the decoder raises; nothing in process()
\* catches it, and the run ends there
ConvertRaise ==
    /\ pc = "convert"
    /\ ~convert_skips(fs, Head(queue))
    /\ convert_raises(fs, Head(queue))
    /\ pc' = "aborted"
    /\ runs' = runs + 1
    /\ UNCHANGED <<fs, list_json, dir_order, slide_pngs, queue, fs0>>

\* line 154, archive_original: the original is moved; the loop goes on
ArchiveOriginal ==
    /\ pc = "archive"
    /\ \E now \in Clock :
         fs' = move(fs, Head(queue), archive_dest(fs, Head(queue), now))
    /\ queue' = Tail(queue)
    /\ pc' = IF Tail(queue) = <<>> THEN "index" ELSE "convert"
    /\ UNCHANGED <<list_json, dir_order, slide_pngs, runs, fs0>>

\* line 159: list.json is written anew; the run is over
BuildListJson ==
    /\ pc = "index"
    /\ list_json' = build_list_json(fs, dir_order)
    /\ pc' = "done"
    /\ runs' = runs + 1
    /\ UNCHANGED <<fs, dir_order, slide_pngs, queue, fs0>>

Next ==
    \/ FoundSlides
    \/ FoundNone
    \/ ConvertSkip
    \/ ConvertSave
    \/ ConvertRaise
    \/ ArchiveOriginal
    \/ BuildListJson

Spec == Init /\ [][Next]_vars

----------------------------------------------------------------------------
(* The process is killed (power loss, SIGKILL) in the middle of a run.     *)

\* between two file operations
Kill ==
    /\ pc \in {"convert", "archive", "index"}
    /\ pc' = "crashed"
    /\ runs' = runs + 1
    /\ UNCHANGED <<fs, list_json, dir_order, slide_pngs, queue, fs0>>

\* inside img.save (line 61), which writes straight to webp_path
KillDuringSave ==
    /\ pc = "convert"
    /\ ~convert_skips(fs, Head(queue))
    /\ ~convert_raises(fs, Head(queue))
    /\ fs' = [convert_saves(fs, Head(queue)) EXCEPT
                ![webp_path_of(Head(queue))] = PartialWebp(fs[Head(queue)])]
    /\ pc' = "crashed"
    /\ runs' = runs + 1
    /\ UNCHANGED <<list_json, dir_order, slide_pngs, queue, fs0>>

\* after open(LIST_JSON, 'w') (line 133) has emptied the file, before json.dump
KillDuringDump ==
    /\ pc = "index"
    /\ list_json' = <<>>
    /\ pc' = "crashed"
    /\ runs' = runs + 1
    /\ UNCHANGED <<fs, dir_order, slide_pngs, queue, fs0>>

NextWithKill == Next \/ Kill \/ KillDuringSave \/ KillDuringDump

SpecWithKill == Init /\ [][NextWithKill]_vars

----------------------------------------------------------------------------
(* Vocabulary of the properties. *)

\* a run of process() has ended, by returning or by an uncaught exception
RunEnded == pc \in {"done", "aborted"}

InSource(p) == p.dir = SOURCE_DIR
InArchive(p) == p.dir = ARCHIVE_DIR
IsWebp(p) == InArchive(p) /\ endswith(p.name, DotWebp)

\* the name without its last extension, cut at the first and the last delimiter
StemOf(name) == SubSeq(name, 1, Len(name) - Len(splitext(name)[2]))
Delims(s) == {i \in 1..Len(s) : s[i] = "_"}
FirstDelim(s) == CHOOSE i \in Delims(s) : \A j \in Delims(s) : i <= j
LastDelim(s) == CHOOSE i \in Delims(s) : \A j \in Delims(s) : j <= i
DateText(s) == SubSeq(s, 1, FirstDelim(s) - 1)
LabelText(s) == SubSeq(s, FirstDelim(s) + 1, LastDelim(s) - 1)
PageText(s) == SubSeq(s, LastDelim(s) + 1, Len(s))

AllDecimal(s) == s # <<>> /\ \A i \in 1..Len(s) : s[i] \in DecimalChars

\* the value of a string of decimal digits, most significant digit first
RECURSIVE DecimalValue(_)
DecimalValue(s) ==
    IF s = <<>> THEN 0
    ELSE (Ord(Head(s)) - 48) * (10 ^ (Len(s) - 1)) + DecimalValue(Tail(s))

\* the page number the index sorts a file by: its last segment read as a
\* number, 0 when it is no number
PageNumber(name) ==
    LET s == StemOf(name)
        P == IF Delims(s) = {} THEN s ELSE PageText(s)
    IN IF AllDecimal(P) THEN DecimalValue(P) ELSE 0

\* the decimal numeral of n
RECURSIVE Numeral(_)
Numeral(n) ==
    LET d == CHOOSE c \in DecimalChars : Ord(c) = 48 + (n % 10)
    IN IF n < 10 THEN <<d>> ELSE Numeral(n \div 10) \o <<d>>

\* a conforming file name D_L1_..._Lk_P.ext, k >= 1, P a decimal number
Conforming(name) ==
    LET s == StemOf(name)
    IN Cardinality(Delims(s)) >= 2 /\ AllDecimal(PageText(s))

\* D_label_P put together again from a parsed triple
Reconstructed(r) == r.date \o <<"_">> \o r.label \o <<"_">> \o Numeral(r.page)

\* the stem with the leading zeros of its page segment dropped
Canonical(s) == SubSeq(s, 1, LastDelim(s)) \o Numeral(DecimalValue(PageText(s)))

RECURSIVE Concat(_)
Concat(ss) == IF ss = <<>> THEN <<>> ELSE Head(ss) \o Concat(Tail(ss))

\* the entries of an index, in order: <<date, label, file name>>
IndexEntries(ix) ==
    Concat([i \in 1..Len(ix) |->
        Concat([j \in 1..Len(ix[i].labels) |->
            [k \in 1..Len(ix[i].labels[j].files) |->
                <<ix[i].date, ix[i].labels[j].label, ix[i].labels[j].files[k]>>]])])

\* the slide files of the archive directory to which parse_filename gives a
\* date and a label, as the index should list them
ArchiveEntries(disk) ==
    {<<parse_filename(p.name).date, parse_filename(p.name).label, p.name>> :
        p \in {q \in DOMAIN disk : /\ IsWebp(q)
                                    /\ Len(split(q.name, "_")) >= 3
                                    /\ ~parse_filename(q.name).raised}}

\* the original of source path p is in the archive, under its name or a suffixed one
OriginalArchived(disk, p, original) ==
    \E q \in DOMAIN disk :
        /\ InArchive(q) /\ disk[q] = original
        /\ q.name = p.name \/ \E now \in Clock : q = suffixed_dest(p, now)

----------------------------------------------------------------------------
(* C1 *)

\* C1: a decode failure of convert_to_webp on one discovered file does not
\* abort the batch: when the run has ended, build_list_json has run, and every
\* discovered file other than those that could not be decoded is converted
\* and archived.
C1_FailureDoesNotAbortBatch ==
    RunEnded =>
        /\ pc = "done"
        /\ \A p \in slide_pngs :
              \/ exists(fs, p) /\ convert_raises(fs, p) /\ ~convert_skips(fs, p)
              \/ ~exists(fs, p) /\ exists(fs, webp_path_of(p))

----------------------------------------------------------------------------
(* C2 *)

\* C2: no original leaves the source directory before its converted entry
\* <stem>.webp exists in the archive; and when conversion of a file fails, the
\* file is still at its source path, with the bytes it had.
C2_ConvertedBeforeArchived ==
    [][/\ \A p \in DOMAIN fs :
             (InSource(p) /\ p \notin DOMAIN fs') => exists(fs, webp_path_of(p))
       /\ (pc = "convert" /\ pc' = "aborted") =>
             /\ exists(fs', Head(queue))
             /\ fs'[Head(queue)] = fs0[Head(queue)]
             /\ ~exists(fs', webp_path_of(Head(queue)))]_vars

\* a run that archived one file and then failed to convert the next
C2_Witness ==
    /\ pc = "aborted"
    /\ \E p \in slide_pngs : ~exists(fs, p) /\ exists(fs, webp_path_of(p))
    /\ exists(fs, Head(queue))

----------------------------------------------------------------------------
(* C3 *)

CollisionStep ==
    pc = "archive" /\ exists(fs, Path(ARCHIVE_DIR, basename(Head(queue))))

\* C3 as stated: archiving an original whose basename already exists in the
\* archive overwrites or removes no file of the archive, whatever the clock
\* says, and the moved original arrives under a new name with its bytes.
C3_CollisionNeverOverwrites ==
    [][CollisionStep =>
        /\ \A p \in DOMAIN fs : InArchive(p) => exists(fs', p) /\ fs'[p] = fs[p]
        /\ \E q \in DOMAIN fs' \ DOMAIN fs : InArchive(q) /\ fs'[q] = fs[Head(queue)]]_vars

\* C3 amended: archiving an original whose basename already exists in the
\* archive leaves the file of that basename and every other archive file as it
\* was, except a file already named <stem>_<HHMMSS>.png for the second of the
\* move, which the move replaces; the original leaves the source directory
\* and arrives in the archive with its bytes unchanged.
C3_CollisionOverwritesOnlySameSecond ==
    [][CollisionStep =>
        LET src == Head(queue)
            plain == Path(ARCHIVE_DIR, basename(src))
        IN /\ ~exists(fs', src)
           /\ exists(fs', plain) /\ fs'[plain] = fs[plain]
           /\ \E now \in Clock :
                 /\ exists(fs', suffixed_dest(src, now))
                 /\ fs'[suffixed_dest(src, now)] = fs[src]
                 /\ \A p \in DOMAIN fs :
                       (InArchive(p) /\ p # suffixed_dest(src, now))
                           => exists(fs', p) /\ fs'[p] = fs[p]]_vars

\* both originals of one basename are in the archive: the older one under its
\* name, the new one under a suffixed name
C3_Witness ==
    \E p \in slide_pngs : \E now \in Clock :
        /\ ~exists(fs, p)
        /\ exists(fs, Path(ARCHIVE_DIR, basename(p)))
        /\ fs[Path(ARCHIVE_DIR, basename(p))] = PngFile(2, TRUE)
        /\ exists(fs, suffixed_dest(p, now))
        /\ fs[suffixed_dest(p, now)] = fs0[p]

----------------------------------------------------------------------------
(* C4 *)

\* C4: a run of process() that follows another run, with nothing uploaded in
\* between, converts nothing, adds no archive file and leaves the archive and
\* the index as the first run left them.
C4_SecondRunChangesNothing ==
    [][runs >= 1 => fs' = fs /\ list_json' = list_json]_vars

\* a second run has ended, after a first one that converted and archived
C4_Witness ==
    /\ runs = 2 /\ pc = "done"
    /\ \E p \in DOMAIN fs0 : InSource(p) /\ ~exists(fs, p)
    /\ \E q \in DOMAIN fs : IsWebp(q) /\ ~exists(fs0, q)

----------------------------------------------------------------------------
(* C5 *)

\* C5: when a run was killed at any point and process() was then run to its
\* end, the archive holds for every slide file of the initial source
\* directory a completely written converted entry and the original, and the
\* index lists the entry (every entry parse_filename accepts).
C5_RerunAfterKillCompletes ==
    pc = "done" =>
        \A p \in find_slide_pngs(fs0) :
            /\ exists(fs, webp_path_of(p))
            /\ fs[webp_path_of(p)].ok
            /\ OriginalArchived(fs, p, fs0[p])
            /\ ~parse_filename(webp_name_of(p)).raised =>
                  \E i \in 1..Len(IndexEntries(list_json)) :
                      IndexEntries(list_json)[i][3] = webp_name_of(p)

----------------------------------------------------------------------------
(* C6 *)

\* C6: the index build_list_json produces lists the dates in descending
\* order, the labels of a date in ascending order and the files of a label in
\* ascending order of page number (0 for a page that is no number), whichever
\* order the directory enumerates its files in.
C6_IndexOrdered ==
    pc = "done" =>
        /\ \A i, j \in 1..Len(list_json) :
              i < j => StrLess(list_json[j].date, list_json[i].date)
        /\ \A i \in 1..Len(list_json) :
              LET ls == list_json[i].labels
              IN /\ \A j, k \in 1..Len(ls) : j < k => StrLess(ls[j].label, ls[k].label)
                 /\ \A j \in 1..Len(ls) : \A k, l \in 1..Len(ls[j].files) :
                       k < l => PageNumber(ls[j].files[k]) <= PageNumber(ls[j].files[l])

\* an index of two dates whose first date lists page x (0) before page 2,
\* built from a directory that enumerates them the other way round
C6_Witness ==
    /\ pc = "done" /\ dir_order = "asc"
    /\ Len(list_json) = 2
    /\ list_json[1].date = <<"2">>
    /\ list_json[2].labels[1].files = <<Stem_1_A_x \o DotWebp, Stem_1_A_2 \o DotWebp>>

----------------------------------------------------------------------------
(* C7 *)

\* C7: every run of process() ends with a full rebuild of the index: when the
\* run has ended, the index lists exactly the .webp files of the archive
\* directory whose name has three or more segments, each once, under the date
\* and label parse_filename gives it.
C7_EveryRunRebuildsIndex ==
    RunEnded =>
        LET es == IndexEntries(list_json)
        IN /\ {es[i] : i \in 1..Len(es)} = ArchiveEntries(fs)
           /\ \A i, j \in 1..Len(es) : i # j => es[i][3] # es[j][3]

----------------------------------------------------------------------------
(* C8 *)

\* C8: when a run has ended, a file of the source directory has been moved
\* to the archive, with a converted entry there, if and only if its name
\* without extension has three or more segments; a file of one or two
\* segments is at its path, unchanged, and no converted entry was made for it.
C8_ExactlySlidesProcessed ==
    RunEnded =>
        \A p \in {q \in DOMAIN fs0 : InSource(q)} :
            IF Len(split(StemOf(p.name), "_")) >= 3
            THEN ~exists(fs, p) /\ exists(fs, webp_path_of(p))
            ELSE /\ exists(fs, p) /\ fs[p] = fs0[p]
                 /\ exists(fs, webp_path_of(p)) => exists(fs0, webp_path_of(p))

----------------------------------------------------------------------------
(* C9 *)

ConformingWebps == {p.name : p \in {q \in DOMAIN fs : IsWebp(q) /\ Conforming(q.name)}}

ParsedAsWritten(f) ==
    LET r == parse_filename(f)
        s == StemOf(f)
    IN /\ ~r.raised
       /\ r.date = DateText(s)
       /\ r.label = LabelText(s)
       /\ r.page = DecimalValue(PageText(s))

\* C9 as stated: parsing a conforming name D_L1_..._Lk_P.ext yields date D,
\* label L1_..._Lk and page int(P); D_label_P put together from the parsed
\* triple is the original stem; distinct conforming stems have distinct triples.
C9_RoundTripExact ==
    pc = "done" =>
        /\ \A f \in ConformingWebps :
              ParsedAsWritten(f) /\ Reconstructed(parse_filename(f)) = StemOf(f)
        /\ \A f, g \in ConformingWebps :
              f # g => parse_filename(f) # parse_filename(g)

\* C9 amended: parsing a conforming name yields date D, label L1_..._Lk and
\* page int(P); D_label_P put together from the parsed triple is the original
\* stem with the leading zeros of P dropped (the stem itself when P has
\* none); distinct conforming stems have the same triple only when they
\* differ in leading zeros of P alone.
C9_RoundTripUpToLeadingZeros ==
    pc = "done" =>
        /\ \A f \in ConformingWebps :
              /\ ParsedAsWritten(f)
              /\ Reconstructed(parse_filename(f)) = Canonical(StemOf(f))
              /\ PageText(StemOf(f)) = Numeral(DecimalValue(PageText(StemOf(f))))
                    => Reconstructed(parse_filename(f)) = StemOf(f)
        /\ \A f, g \in ConformingWebps :
              parse_filename(f) = parse_filename(g)
                  => Canonical(StemOf(f)) = Canonical(StemOf(g))

\* the index was built from an archive that holds a label with a delimiter
\* and a page with a leading zero
C9_Witness ==
    /\ pc = "done"
    /\ Stem_1_B_C_1 \o DotWebp \in ConformingWebps
    /\ Stem_1_A_02 \o DotWebp \in ConformingWebps
    /\ \E i \in 1..Len(list_json) : \E j \in 1..Len(list_json[i].labels) :
          list_json[i].labels[j].label = <<"B", "_", "C">>

----------------------------------------------------------------------------
(* C10 *)

\* C10: once a converted entry <stem>.webp exists in the archive directory,
\* no step of any run rewrites, renames or removes it, also when a new source
\* file of the same stem is processed.
C10_ConvertedEntryNeverTouched ==
    [][\A p \in DOMAIN fs : IsWebp(p) => exists(fs', p) /\ fs'[p] = fs[p]]_vars

\* a new upload (image 1) was processed while the archive kept the entry
\* converted from an older image of the same stem (image 2)
C10_Witness ==
    /\ pc = "done"
    /\ \E p \in slide_pngs :
          /\ ~exists(fs, p)
          /\ fs0[p] = PngFile(1, TRUE)
          /\ exists(fs, webp_path_of(p))
          /\ fs[webp_path_of(p)] = SavedWebp(PngFile(2, TRUE))

====
